---- MODULE Spec2Model ----
(***************************************************************************)
(* pomp: the interactive editing and command-dispatch engine of            *)
(* src/main.rs (struct App and its event handlers), as a state machine.    *)
(*                                                                         *)
(* A text (Rope, String, &str) is a sequence of characters, a character a  *)
(* one-character string.  Option<T> is a sequence of length 0 or 1.        *)
(***************************************************************************)
EXTENDS Integers, Sequences, FiniteSets, TLC

VARIABLES
    exit,               \* App.exit: bool
    input,              \* App.input: Rope
    cursor_pos,         \* App.cursor_pos: usize
    buffer,             \* App.buffer: String
    scroll_pos,         \* App.scroll_pos: usize
    error_message,      \* App.error_message: Option<String>
    info_message,       \* App.info_message: Option<String>
    autocomplete_index, \* App.autocomplete_index: Option<usize>
    input_scroll_line,  \* App.input_scroll_line: usize
    undo_stack,         \* App.undo_stack: Vec<String>
    redo_stack          \* App.redo_stack: Vec<String>

vars == <<exit, input, cursor_pos, buffer, scroll_pos, error_message,
          info_message, autocomplete_index, input_scroll_line,
          undo_stack, redo_stack>>

\* The fields of the input editor, of the output pane and of the history.
inputVars == <<input, cursor_pos, autocomplete_index, input_scroll_line>>
bufferVars == <<buffer, scroll_pos, undo_stack, redo_stack>>
messageVars == <<error_message, info_message>>

(***************************************************************************)
(* Option, usize arithmetic                                                *)
(***************************************************************************)
None == <<>>
Some(x) == <<x>>

Min(a, b) == IF a <= b THEN a ELSE b
Max(a, b) == IF a >= b THEN a ELSE b

\* usize::saturating_sub
saturating_sub(a, b) == IF a >= b THEN a - b ELSE 0

(***************************************************************************)
(* Texts                                                                   *)
(***************************************************************************)
\* char::is_whitespace: the characters with the property White_Space. One
\* that cannot be written goes by the name of its code point.
is_whitespace(c) ==
    c \in {" ", "\n", "\t", "\r", "U+11", "U+12", "U+133", "U+160",
            "U+5760", "U+8192", "U+8193", "U+8194", "U+8195", "U+8196",
            "U+8197", "U+8198", "U+8199", "U+8200", "U+8201", "U+8202",
            "U+8232", "U+8233", "U+8239", "U+8287", "U+12288"}

RECURSIVE trim_start(_)
trim_start(t) ==
    IF t # <<>> /\ is_whitespace(Head(t)) THEN trim_start(Tail(t)) ELSE t

RECURSIVE trim_end(_)
trim_end(t) ==
    IF t # <<>> /\ is_whitespace(t[Len(t)])
    THEN trim_end(SubSeq(t, 1, Len(t) - 1))
    ELSE t

\* str::trim
trim(t) == trim_end(trim_start(t))

\* str::starts_with
starts_with(t, p) == Len(p) <= Len(t) /\ SubSeq(t, 1, Len(p)) = p

\* Rope::insert / Rope::insert_char at character index pos (0-based).
rope_insert(t, pos, s) == SubSeq(t, 1, pos) \o s \o SubSeq(t, pos + 1, Len(t))

\* Rope::remove(pos..pos + 1)
rope_remove(t, pos) == SubSeq(t, 1, pos) \o SubSeq(t, pos + 2, Len(t))

\* str::lines: the text split after each "\n"; a line's "\n", and a "\r"
\* right before it, are not part of the line; a text that ends in "\n" has
\* no empty last line.
RECURSIVE lines_from(_, _, _)
lines_from(t, i, cur) ==
    IF i > Len(t) THEN (IF cur = <<>> THEN <<>> ELSE <<cur>>)
    ELSE IF t[i] = "\n"
         THEN <<(IF cur # <<>> /\ cur[Len(cur)] = "\r"
                 THEN SubSeq(cur, 1, Len(cur) - 1)
                 ELSE cur)>> \o lines_from(t, i + 1, <<>>)
         ELSE lines_from(t, i + 1, Append(cur, t[i]))

lines(t) == lines_from(t, 1, <<>>)

(***************************************************************************)
(* The command registry                                                    *)
(***************************************************************************)
CmdBase64Decode ==
    <<"/", "b", "a", "s", "e", "6", "4", "-", "d", "e", "c", "o", "d", "e">>
CmdBase64Encode ==
    <<"/", "b", "a", "s", "e", "6", "4", "-", "e", "n", "c", "o", "d", "e">>
CmdCopy == <<"/", "c", "o", "p", "y">>
CmdCssFormat == <<"/", "c", "s", "s", "-", "f", "o", "r", "m", "a", "t">>
CmdCssMinify == <<"/", "c", "s", "s", "-", "m", "i", "n", "i", "f", "y">>
CmdCuid == <<"/", "c", "u", "i", "d">>
CmdExit == <<"/", "e", "x", "i", "t">>
CmdJsonFormat ==
    <<"/", "j", "s", "o", "n", "-", "f", "o", "r", "m", "a", "t">>
CmdJsonMinify ==
    <<"/", "j", "s", "o", "n", "-", "m", "i", "n", "i", "f", "y">>
CmdSha256 == <<"/", "s", "h", "a", "-", "2", "5", "6">>
CmdUuid == <<"/", "u", "u", "i", "d">>

get_available_commands ==
    <<CmdBase64Decode, CmdBase64Encode, CmdCopy, CmdCssFormat, CmdCssMinify,
      CmdCuid, CmdExit, CmdJsonFormat, CmdJsonMinify, CmdSha256, CmdUuid>>

RegisteredNames ==
    {get_available_commands[i] : i \in 1..Len(get_available_commands)}

\* A variant of get_filtered_commands without the test for "/".
get_filtered_commands_of_any_text(text) ==
    SelectSeq(get_available_commands, LAMBDA cmd : starts_with(cmd, text))

\* The registered names that start with the whole input text, in the
\* registry's order; none when the input does not start with "/".
get_filtered_commands(text) ==
    IF ~starts_with(text, <<"/">>) THEN <<>>
    ELSE SelectSeq(get_available_commands, LAMBDA cmd : starts_with(cmd, text))

\* A variant of is_valid_command that takes every text that begins with
\* "/" for a command.
is_valid_command_any_slash(input_trimmed) ==
    starts_with(input_trimmed, <<"/">>)

\* A variant of is_valid_command that takes a prefix of a registered name
\* for the name.
is_valid_command_by_prefix(input_trimmed) ==
    \E i \in 1..Len(get_available_commands) :
        starts_with(get_available_commands[i], input_trimmed)

\* Enter: the trimmed input is exactly a registered name.
is_valid_command(input_trimmed) ==
    \E i \in 1..Len(get_available_commands) :
        get_available_commands[i] = input_trimmed

(***************************************************************************)
(* The cursor model                                                        *)
(***************************************************************************)
\* A variant of cursor_loop that does not restart the column at a line
\* break.
RECURSIVE cursor_loop_keeps_col(_, _, _, _, _)
cursor_loop_keeps_col(text, pos, i, line, col) ==
    IF i >= Len(text) \/ i >= pos THEN <<line, col>>
    ELSE IF text[i + 1] = "\n"
         THEN cursor_loop_keeps_col(text, pos, i + 1, line + 1, col)
         ELSE cursor_loop_keeps_col(text, pos, i + 1, line, col + 1)

\* The loop of get_cursor_line_col from character i (0-based) on.
RECURSIVE cursor_loop(_, _, _, _, _)
cursor_loop(text, pos, i, line, col) ==
    IF i >= Len(text) \/ i >= pos THEN <<line, col>>
    ELSE IF text[i + 1] = "\n"
         THEN cursor_loop(text, pos, i + 1, line + 1, 0)
         ELSE cursor_loop(text, pos, i + 1, line, col + 1)

\* (line, col) of the character offset pos.
get_cursor_line_col(text, pos) == cursor_loop(text, pos, 0, 0, 0)

\* A variant of set_cursor_loop that does not stop at the line break of
\* the target line.
RECURSIVE set_cursor_overrun(_, _, _, _, _, _)
set_cursor_overrun(text, target_line, target_col, pos, line, col) ==
    IF pos >= Len(text) THEN pos
    ELSE IF line = target_line /\ col = target_col THEN pos
    ELSE IF line > target_line THEN pos
    ELSE IF text[pos + 1] = "\n"
         THEN set_cursor_overrun(text, target_line, target_col,
                                 pos + 1, line + 1, 0)
         ELSE set_cursor_overrun(text, target_line, target_col,
                                 pos + 1, line, col + 1)

\* The loop of set_cursor_from_line_col: pos counts the characters passed
\* before the loop breaks or the text ends.
RECURSIVE set_cursor_loop(_, _, _, _, _, _)
set_cursor_loop(text, target_line, target_col, pos, line, col) ==
    IF pos >= Len(text) THEN pos
    ELSE IF line = target_line /\ col = target_col THEN pos
    ELSE IF line > target_line THEN pos
    ELSE IF text[pos + 1] = "\n"
         THEN IF line = target_line THEN pos
              ELSE set_cursor_loop(text, target_line, target_col,
                                   pos + 1, line + 1, 0)
         ELSE set_cursor_loop(text, target_line, target_col,
                              pos + 1, line, col + 1)

\* The character offset of (target_line, target_col).
set_cursor_from_line_col(text, target_line, target_col) ==
    set_cursor_loop(text, target_line, target_col, 0, 0, 0)

\* The input view shows max_visible_lines lines from input_scroll_line.
max_visible_lines == 5

\* A variant of adjust_input_scroll that advances the anchor one line
\* short.
adjust_input_scroll_one_short(text, pos, scroll_line) ==
    LET current_line == get_cursor_line_col(text, pos)[1]
        down == IF current_line >= scroll_line + max_visible_lines
                THEN current_line - max_visible_lines
                ELSE scroll_line
    IN  IF current_line < down THEN current_line ELSE down

\* The input scroll anchor after adjust_input_scroll.
adjust_input_scroll(text, pos, scroll_line) ==
    LET current_line == get_cursor_line_col(text, pos)[1]
        down == IF current_line >= scroll_line + max_visible_lines
                THEN current_line - max_visible_lines + 1
                ELSE scroll_line
    IN  IF current_line < down THEN current_line ELSE down

\* text.lines().count().max(1), 1 for the empty text (Down key, render).
input_line_count(text) ==
    IF text = <<>> THEN 1 ELSE Max(Len(lines(text)), 1)

\* render: the first line of the slice of the input that is drawn,
\* input_scroll_line.min(input_line_count.saturating_sub(1)).
start_line(text, scroll_line) ==
    Min(scroll_line, saturating_sub(input_line_count(text), 1))

\* render: the line after the last one drawn,
\* (start_line + max_visible_lines).min(input_line_count).
end_line(text, scroll_line) ==
    Min(start_line(text, scroll_line) + max_visible_lines,
        input_line_count(text))

\* render: the test of the branch "Cursor is in visible area"; when it
\* fails the cursor block is appended after the last line drawn.
cursor_in_visible_area(text, pos, scroll_line) ==
    LET cursor_line_of == get_cursor_line_col(text, pos)[1]
    IN  /\ cursor_line_of >= start_line(text, scroll_line)
        /\ cursor_line_of < end_line(text, scroll_line)

(***************************************************************************)
(* The history: push_undo, undo, redo                                      *)
(***************************************************************************)
MAX_STACK_SIZE == 500

\* The history fields an undo or a redo reads and writes.
History == [buffer |-> buffer, scroll_pos |-> scroll_pos,
            info_message |-> info_message,
            undo_stack |-> undo_stack, redo_stack |-> redo_stack]

\* Variants of push_undo: one that leaves the redo stack as it is, one that
\* evicts as soon as the stack is full, one that never evicts.
push_undo_keeps_redo(h) ==
    LET pushed == Append(h.undo_stack, h.buffer)
    IN  [h EXCEPT !.undo_stack = IF Len(pushed) > MAX_STACK_SIZE
                                 THEN Tail(pushed)
                                 ELSE pushed]

push_undo_evicts_early(h) ==
    LET pushed == Append(h.undo_stack, h.buffer)
    IN  [h EXCEPT !.undo_stack = IF Len(pushed) >= MAX_STACK_SIZE
                                 THEN Tail(pushed)
                                 ELSE pushed,
                  !.redo_stack = <<>>]

push_undo_uncapped(h) ==
    [h EXCEPT !.undo_stack = Append(h.undo_stack, h.buffer),
              !.redo_stack = <<>>]

\* push_undo: the two stacks after the snapshot of buf.
push_undo(h) ==
    LET pushed == Append(h.undo_stack, h.buffer)
    IN  [h EXCEPT !.undo_stack = IF Len(pushed) > MAX_STACK_SIZE
                                 THEN Tail(pushed)
                                 ELSE pushed,
                  !.redo_stack = <<>>]

\* Variants of undo: one that saves the restored text instead of the
\* Buffer, one that leaves the scroll anchor where it was.
undo_saves_restored(h) ==
    IF h.undo_stack = <<>> THEN h
    ELSE [buffer |-> h.undo_stack[Len(h.undo_stack)],
          scroll_pos |-> 0,
          info_message |-> Some("Undo"),
          undo_stack |-> SubSeq(h.undo_stack, 1, Len(h.undo_stack) - 1),
          redo_stack |-> Append(h.redo_stack,
                                h.undo_stack[Len(h.undo_stack)])]

undo_keeps_scroll(h) ==
    IF h.undo_stack = <<>> THEN h
    ELSE [buffer |-> h.undo_stack[Len(h.undo_stack)],
          scroll_pos |-> h.scroll_pos,
          info_message |-> Some("Undo"),
          undo_stack |-> SubSeq(h.undo_stack, 1, Len(h.undo_stack) - 1),
          redo_stack |-> Append(h.redo_stack, h.buffer)]

\* undo: nothing when the undo stack is empty.
undo(h) ==
    IF h.undo_stack = <<>> THEN h
    ELSE [buffer |-> h.undo_stack[Len(h.undo_stack)],
          scroll_pos |-> 0,
          info_message |-> Some("Undo"),
          undo_stack |-> SubSeq(h.undo_stack, 1, Len(h.undo_stack) - 1),
          redo_stack |-> Append(h.redo_stack, h.buffer)]

\* A variant of redo that leaves the text it restores on the redo stack.
redo_keeps_redone(h) ==
    IF h.redo_stack = <<>> THEN h
    ELSE [buffer |-> h.redo_stack[Len(h.redo_stack)],
          scroll_pos |-> 0,
          info_message |-> Some("Redo"),
          undo_stack |-> Append(h.undo_stack, h.buffer),
          redo_stack |-> h.redo_stack]

\* A variant of redo that does not save the Buffer on the undo stack.
redo_drops_current(h) ==
    IF h.redo_stack = <<>> THEN h
    ELSE [buffer |-> h.redo_stack[Len(h.redo_stack)],
          scroll_pos |-> 0,
          info_message |-> Some("Redo"),
          undo_stack |-> h.undo_stack,
          redo_stack |-> SubSeq(h.redo_stack, 1, Len(h.redo_stack) - 1)]

\* redo: nothing when the redo stack is empty.
redo(h) ==
    IF h.redo_stack = <<>> THEN h
    ELSE [buffer |-> h.redo_stack[Len(h.redo_stack)],
          scroll_pos |-> 0,
          info_message |-> Some("Redo"),
          undo_stack |-> Append(h.undo_stack, h.buffer),
          redo_stack |-> SubSeq(h.redo_stack, 1, Len(h.redo_stack) - 1)]

\* The history fields become those of h.
SetHistory(h) ==
    /\ buffer' = h.buffer
    /\ scroll_pos' = h.scroll_pos
    /\ info_message' = h.info_message
    /\ undo_stack' = h.undo_stack
    /\ redo_stack' = h.redo_stack

(***************************************************************************)
(* The transform capabilities and the clipboard: external collaborators.   *)
(* What one returns is one of the results the dispatcher matches on; a     *)
(* text it returns is one of OutTexts.                                     *)
(***************************************************************************)
Ok(t) == [ok |-> TRUE, text |-> t, error |-> ""]
Err(m) == [ok |-> FALSE, text |-> <<>>, error |-> m]

OutTexts == {<<"o">>, <<"o", "\n", "k">>}

ErrBufferEmpty == "Error: Buffer is empty"
ErrUnknownCommand == "Error: Unknown command '{}'"

\* The results of the capability behind a command, on the Buffer buf. In
\* a message, {} stands for the detail that format! puts there.
command_results(command, buf) ==
    CASE command = CmdBase64Decode ->
            {Ok(t) : t \in OutTexts}
                \cup {Err("Error: Invalid base64 input"),
                      Err("Error: Decoded data is not valid UTF-8")}
      [] command = CmdBase64Encode -> {Ok(t) : t \in OutTexts}
      [] command = CmdCopy ->
            {Ok(buf), Err("Error: Failed to copy to clipboard")}
      [] command = CmdJsonFormat ->
            {Ok(t) : t \in OutTexts}
                \cup {Err("Error: Invalid JSON - {}"),
                      Err("Error: Failed to format JSON")}
      [] command = CmdJsonMinify ->
            {Ok(t) : t \in OutTexts}
                \cup {Err("Error: Invalid JSON - {}"),
                      Err("Error: Failed to minify JSON")}
      [] command = CmdCssFormat ->
            {Ok(t) : t \in OutTexts}
                \cup {Err("Error: Invalid CSS - {}"),
                      Err("Error: Failed to format CSS")}
      [] command = CmdCssMinify ->
            {Ok(t) : t \in OutTexts}
                \cup {Err("Error: Invalid CSS - {}"),
                      Err("Error: Failed to minify CSS - {}"),
                      Err("Error: Failed to minify CSS")}
      [] command = CmdCuid -> {Ok(t) : t \in OutTexts}
      [] command = CmdSha256 -> {Ok(t) : t \in OutTexts}
      [] command = CmdUuid -> {Ok(t) : t \in OutTexts}
      [] OTHER -> {Ok(buf)}

\* A variant of transform_arm whose guard ends the engine.
transform_arm_guard_exits(r) ==
    IF buffer = <<>>
    THEN /\ error_message' = Some(ErrBufferEmpty)
         /\ info_message' = None
         /\ exit' = TRUE
         /\ UNCHANGED <<buffer, scroll_pos>>
    ELSE IF r.ok
    THEN /\ buffer' = r.text
         /\ scroll_pos' = 0
         /\ error_message' = None
         /\ info_message' = None
         /\ UNCHANGED exit
    ELSE /\ error_message' = Some(r.error)
         /\ info_message' = None
         /\ UNCHANGED <<buffer, scroll_pos, exit>>

\* Variants of transform_arm: one without the guard, one that resets the
\* output scroll anchor when the capability fails.
transform_arm_without_guard(r) ==
    IF r.ok
    THEN /\ buffer' = r.text
         /\ scroll_pos' = 0
         /\ error_message' = None
         /\ info_message' = None
         /\ UNCHANGED exit
    ELSE /\ error_message' = Some(r.error)
         /\ info_message' = None
         /\ UNCHANGED <<buffer, scroll_pos, exit>>

transform_arm_failure_resets_scroll(r) ==
    IF buffer = <<>>
    THEN /\ error_message' = Some(ErrBufferEmpty)
         /\ info_message' = None
         /\ UNCHANGED <<buffer, scroll_pos, exit>>
    ELSE IF r.ok
    THEN /\ buffer' = r.text
         /\ scroll_pos' = 0
         /\ error_message' = None
         /\ info_message' = None
         /\ UNCHANGED exit
    ELSE /\ error_message' = Some(r.error)
         /\ info_message' = None
         /\ scroll_pos' = 0
         /\ UNCHANGED <<buffer, exit>>

\* A command arm that needs content: the guard, then the capability.
transform_arm(r) ==
    IF buffer = <<>>
    THEN /\ error_message' = Some(ErrBufferEmpty)
         /\ info_message' = None
         /\ UNCHANGED <<buffer, scroll_pos, exit>>
    ELSE IF r.ok
    THEN /\ buffer' = r.text
         /\ scroll_pos' = 0
         /\ error_message' = None
         /\ info_message' = None
         /\ UNCHANGED exit
    ELSE /\ error_message' = Some(r.error)
         /\ info_message' = None
         /\ UNCHANGED <<buffer, scroll_pos, exit>>

\* /copy: the guard, then clipboard.set_text.
copy_arm(r) ==
    IF buffer = <<>>
    THEN /\ error_message' = Some(ErrBufferEmpty)
         /\ info_message' = None
         /\ UNCHANGED <<buffer, scroll_pos, exit>>
    ELSE IF r.ok
    THEN /\ info_message' = Some("Copied to clipboard")
         /\ error_message' = None
         /\ UNCHANGED <<buffer, scroll_pos, exit>>
    ELSE /\ error_message' = Some(r.error)
         /\ info_message' = None
         /\ UNCHANGED <<buffer, scroll_pos, exit>>

\* /cuid, /uuid: a generated text, no guard.
generate_arm(r) ==
    /\ buffer' = r.text
    /\ scroll_pos' = 0
    /\ error_message' = None
    /\ info_message' = None
    /\ UNCHANGED exit

\* /exit
exit_arm ==
    /\ exit' = TRUE
    /\ error_message' = None
    /\ info_message' = None
    /\ UNCHANGED <<buffer, scroll_pos>>

\* The default arm.
unknown_arm ==
    /\ error_message' = Some(ErrUnknownCommand)
    /\ info_message' = None
    /\ UNCHANGED <<buffer, scroll_pos, exit>>

\* handle_command: the snapshot, the messages cleared, then the arm of the
\* command, whose capability returns r.
handle_command(command, r) ==
    /\ undo_stack' = push_undo(History).undo_stack
    /\ redo_stack' = push_undo(History).redo_stack
    /\ CASE trim(command) \in {CmdBase64Decode, CmdBase64Encode,
                               CmdJsonFormat, CmdJsonMinify, CmdCssFormat,
                               CmdCssMinify, CmdSha256} -> transform_arm(r)
         [] trim(command) = CmdCopy -> copy_arm(r)
         [] trim(command) \in {CmdCuid, CmdUuid} -> generate_arm(r)
         [] trim(command) = CmdExit -> exit_arm
         [] OTHER -> unknown_arm

(***************************************************************************)
(* Base64.  A text is a sequence of characters and a String holds their    *)
(* UTF-8 bytes: as_bytes and from_utf8 go from one to the other, and the   *)
(* STANDARD engine turns bytes into the 64 symbols and back.               *)
(***************************************************************************)
\* The characters U+0020 to U+007E, in order; the one that a string of
\* this language cannot hold goes by the name of its code point.
Printable ==
    <<" ", "!", "\"", "#", "$", "%", "&", "'", "(", ")", "*", "+", ",",
      "-", ".", "/", "0", "1", "2", "3", "4", "5", "6", "7", "8", "9", ":",
      ";", "<", "=", ">", "?", "@", "A", "B", "C", "D", "E", "F", "G", "H",
      "I", "J", "K", "L", "M", "N", "O", "P", "Q", "R", "S", "T", "U", "V",
      "W", "X", "Y", "Z", "[", "\\", "]", "^", "_", "U+96", "a", "b", "c",
      "d", "e", "f", "g", "h", "i", "j", "k", "l", "m", "n", "o", "p", "q",
      "r", "s", "t", "u", "v", "w", "x", "y", "z", "{", "|", "}", "~">>

\* The character of a code point: itself when it can be written, else a
\* name made of the code point.
CharOf(cp) ==
    IF cp \in 32..126 THEN Printable[cp - 31]
    ELSE IF cp = 9 THEN "\t"
    ELSE IF cp = 10 THEN "\n"
    ELSE IF cp = 13 THEN "\r"
    ELSE "U+" \o ToString(cp)

\* The code point of a character.
CodePoint(c) ==
    IF \E i \in 1..Len(Printable) : Printable[i] = c
    THEN 31 + (CHOOSE i \in 1..Len(Printable) : Printable[i] = c)
    ELSE CHOOSE cp \in 0..1114111 : CharOf(cp) = c

\* The UTF-8 bytes of a code point.
utf8_bytes(cp) ==
    IF cp < 128 THEN <<cp>>
    ELSE IF cp < 2048 THEN <<192 + (cp \div 64), 128 + (cp % 64)>>
    ELSE IF cp < 65536
    THEN <<224 + (cp \div 4096), 128 + ((cp \div 64) % 64), 128 + (cp % 64)>>
    ELSE <<240 + (cp \div 262144), 128 + ((cp \div 4096) % 64),
           128 + ((cp \div 64) % 64), 128 + (cp % 64)>>

\* str::as_bytes
RECURSIVE as_bytes(_)
as_bytes(t) ==
    IF t = <<>> THEN <<>>
    ELSE utf8_bytes(CodePoint(Head(t))) \o as_bytes(Tail(t))

\* The length of the UTF-8 sequence that the byte b begins; 0 when none
\* begins with it.
utf8_width(b) ==
    IF b < 128 THEN 1
    ELSE IF b \in 194..223 THEN 2
    ELSE IF b \in 224..239 THEN 3
    ELSE IF b \in 240..244 THEN 4
    ELSE 0

\* The bytes that may follow the first byte b of a sequence.
utf8_second(b) ==
    IF b = 224 THEN 160..191
    ELSE IF b = 237 THEN 128..159
    ELSE IF b = 240 THEN 144..191
    ELSE IF b = 244 THEN 128..143
    ELSE 128..191

\* The code point of the sequence of w bytes that begins at bytes[i].
utf8_code_point(bytes, i, w) ==
    IF w = 1 THEN bytes[i]
    ELSE IF w = 2 THEN (bytes[i] - 192) * 64 + (bytes[i + 1] - 128)
    ELSE IF w = 3
    THEN (bytes[i] - 224) * 4096 + (bytes[i + 1] - 128) * 64
             + (bytes[i + 2] - 128)
    ELSE (bytes[i] - 240) * 262144 + (bytes[i + 1] - 128) * 4096
             + (bytes[i + 2] - 128) * 64 + (bytes[i + 3] - 128)

\* String::from_utf8, from the byte at i on: the text read so far is acc.
RECURSIVE from_utf8_loop(_, _, _)
from_utf8_loop(bytes, i, acc) ==
    IF i > Len(bytes) THEN [ok |-> TRUE, text |-> acc]
    ELSE LET w == utf8_width(bytes[i])
         IN  IF \/ w = 0
                \/ i + w - 1 > Len(bytes)
                \/ (w > 1 /\ bytes[i + 1] \notin utf8_second(bytes[i]))
                \/ \E j \in (i + 2)..(i + w - 1) : bytes[j] \notin 128..191
             THEN [ok |-> FALSE, text |-> <<>>]
             ELSE from_utf8_loop(bytes, i + w,
                      Append(acc, CharOf(utf8_code_point(bytes, i, w))))

from_utf8(bytes) == from_utf8_loop(bytes, 1, <<>>)

\* The alphabet of the STANDARD engine: the symbol of the value v is
\* STANDARD_alphabet[v + 1].
STANDARD_alphabet ==
    <<"A", "B", "C", "D", "E", "F", "G", "H", "I", "J", "K", "L", "M", "N",
      "O", "P", "Q", "R", "S", "T", "U", "V", "W", "X", "Y", "Z", "a", "b",
      "c", "d", "e", "f", "g", "h", "i", "j", "k", "l", "m", "n", "o", "p",
      "q", "r", "s", "t", "u", "v", "w", "x", "y", "z", "0", "1", "2", "3",
      "4", "5", "6", "7", "8", "9", "+", "/">>

symbol(v) == STANDARD_alphabet[v + 1]

is_symbol(c) == \E i \in 1..64 : STANDARD_alphabet[i] = c

symbol_value(c) == (CHOOSE i \in 1..64 : STANDARD_alphabet[i] = c) - 1

\* general_purpose::STANDARD.encode: three bytes give four symbols, and the
\* last group is padded with "=".
RECURSIVE STANDARD_encode(_)
STANDARD_encode(bytes) ==
    IF bytes = <<>> THEN <<>>
    ELSE IF Len(bytes) = 1
    THEN <<symbol(bytes[1] \div 4), symbol((bytes[1] % 4) * 16), "=", "=">>
    ELSE IF Len(bytes) = 2
    THEN <<symbol(bytes[1] \div 4),
           symbol((bytes[1] % 4) * 16 + (bytes[2] \div 16)),
           symbol((bytes[2] % 16) * 4), "=">>
    ELSE <<symbol(bytes[1] \div 4),
           symbol((bytes[1] % 4) * 16 + (bytes[2] \div 16)),
           symbol((bytes[2] % 16) * 4 + (bytes[3] \div 64)),
           symbol(bytes[3] % 64)>>
             \o STANDARD_encode(SubSeq(bytes, 4, Len(bytes)))

\* The number of "=" that end the text.
RECURSIVE trailing_pads(_)
trailing_pads(t) ==
    IF t # <<>> /\ t[Len(t)] = "="
    THEN 1 + trailing_pads(SubSeq(t, 1, Len(t) - 1))
    ELSE 0

\* The bytes of the symbols s: four symbols give three bytes, a last group
\* of three gives two and one of two gives one.
RECURSIVE symbol_bytes(_)
symbol_bytes(s) ==
    IF Len(s) < 2 THEN <<>>
    ELSE LET v1 == symbol_value(s[1])
             v2 == symbol_value(s[2])
             b1 == v1 * 4 + (v2 \div 16)
         IN  IF Len(s) = 2 THEN <<b1>>
             ELSE LET v3 == symbol_value(s[3])
                      b2 == (v2 % 16) * 16 + (v3 \div 4)
                  IN  IF Len(s) = 3 THEN <<b1, b2>>
                      ELSE <<b1, b2, (v3 % 4) * 64 + symbol_value(s[4])>>
                               \o symbol_bytes(SubSeq(s, 5, Len(s)))

\* general_purpose::STANDARD.decode: the text is symbols and then the
\* padding that brings its length to a multiple of four, and the bits of
\* the last symbol that belong to no byte are zero.
STANDARD_decode(t) ==
    LET pads == trailing_pads(t)
        s == SubSeq(t, 1, Len(t) - pads)
        last == symbol_value(s[Len(s)])
    IN  IF /\ Len(t) % 4 = 0
           /\ pads <= 2
           /\ \A i \in 1..Len(s) : is_symbol(s[i])
           /\ pads = 1 => last % 4 = 0
           /\ pads = 2 => last % 16 = 0
        THEN [ok |-> TRUE, bytes |-> symbol_bytes(s)]
        ELSE [ok |-> FALSE, bytes |-> <<>>]

\* A variant of add_base64_padding that pads a text whose length is a
\* multiple of four as well.
add_base64_padding_always(input_text) ==
    LET trimmed == trim(input_text)
        padding_needed == 4 - (Len(as_bytes(trimmed)) % 4)
    IN  trimmed \o [i \in 1..padding_needed |-> "="]

\* cmds::base64::add_base64_padding
add_base64_padding(input_text) ==
    LET trimmed == trim(input_text)
        padding_needed == (4 - (Len(as_bytes(trimmed)) % 4)) % 4
    IN  IF padding_needed = 0 THEN trimmed
        ELSE trimmed \o [i \in 1..padding_needed |-> "="]

\* cmds::base64::base64_decode
base64_decode(buf) ==
    LET padded == add_base64_padding(buf)
        decoded_bytes == STANDARD_decode(padded)
        decoded_str == from_utf8(decoded_bytes.bytes)
    IN  IF ~decoded_bytes.ok THEN Err("invalid base64 input")
        ELSE IF ~decoded_str.ok THEN Err("decoded base64 is not valid UTF-8")
        ELSE Ok(decoded_str.text)

\* cmds::base64::base64_encode
base64_encode(buf) == STANDARD_encode(as_bytes(buf))

\* The "/base64-decode" arm of handle_command, on the Buffer buf: what its
\* decoding comes to.
dispatch_base64_decode(buf) ==
    LET decoded_bytes == STANDARD_decode(trim(buf))
        decoded_string == from_utf8(decoded_bytes.bytes)
    IN  IF ~decoded_bytes.ok THEN Err("Error: Invalid base64 input")
        ELSE IF ~decoded_string.ok
        THEN Err("Error: Decoded data is not valid UTF-8")
        ELSE Ok(decoded_string.text)

\* The "/base64-encode" arm of handle_command, on the Buffer buf.
dispatch_base64_encode(buf) == Ok(STANDARD_encode(as_bytes(buf)))

\* The results of the capabilities with those of Base64 computed.
computed_results(command, buf) ==
    IF command = CmdBase64Decode THEN {dispatch_base64_decode(buf)}
    ELSE IF command = CmdBase64Encode THEN {dispatch_base64_encode(buf)}
    ELSE command_results(command, buf)

(***************************************************************************)
(* The state after App::default()                                          *)
(***************************************************************************)
Init ==
    /\ exit = FALSE
    /\ input = <<>>
    /\ cursor_pos = 0
    /\ buffer = <<>>
    /\ scroll_pos = 0
    /\ error_message = None
    /\ info_message = Some("Press / to show available commands")
    /\ autocomplete_index = None
    /\ input_scroll_line = 0
    /\ undo_stack = <<>>
    /\ redo_stack = <<>>

(***************************************************************************)
(* The events.  App::run handles one event per turn of its loop, while     *)
(* exit is false.                                                          *)
(***************************************************************************)
\* Event::Paste(text)
Paste(text) ==
    /\ ~exit
    /\ input' = rope_insert(input, cursor_pos, text)
    /\ cursor_pos' = cursor_pos + Len(text)
    /\ autocomplete_index' = None
    /\ input_scroll_line' =
           adjust_input_scroll(input', cursor_pos', input_scroll_line)
    /\ UNCHANGED <<exit, bufferVars, messageVars>>

\* Ctrl+Z or Super+Z, without Shift
KeyUndo ==
    /\ ~exit
    /\ SetHistory(undo(History))
    /\ UNCHANGED <<exit, inputVars, error_message>>

\* Ctrl+Z or Super+Z, with Shift
KeyRedo ==
    /\ ~exit
    /\ SetHistory(redo(History))
    /\ UNCHANGED <<exit, inputVars, error_message>>

\* Ctrl+C, Ctrl+D
KeyQuit ==
    /\ ~exit
    /\ exit' = TRUE
    /\ UNCHANGED <<inputVars, bufferVars, messageVars>>

\* Ctrl+A
KeyCtrlA ==
    /\ ~exit
    /\ cursor_pos' = 0
    /\ UNCHANGED <<exit, input, autocomplete_index, input_scroll_line,
                   bufferVars, messageVars>>

\* Ctrl+E
KeyCtrlE ==
    /\ ~exit
    /\ cursor_pos' = Len(input)
    /\ UNCHANGED <<exit, input, autocomplete_index, input_scroll_line,
                   bufferVars, messageVars>>

\* Ctrl+V or Super+V: clipboard.get_text() returned r.
KeyCtrlV(r) ==
    /\ ~exit
    /\ IF r.ok
       THEN /\ input' = rope_insert(input, cursor_pos, r.text)
            /\ cursor_pos' = cursor_pos + Len(r.text)
       ELSE UNCHANGED <<input, cursor_pos>>
    /\ UNCHANGED <<exit, autocomplete_index, input_scroll_line,
                   bufferVars, messageVars>>

\* Tab
KeyTab ==
    /\ ~exit
    /\ LET filtered == get_filtered_commands(input)
       IN  IF filtered # <<>>
           THEN IF autocomplete_index # None
                THEN autocomplete_index' =
                         Some((autocomplete_index[1] + 1) % Len(filtered))
                ELSE autocomplete_index' = Some(0)
           ELSE UNCHANGED autocomplete_index
    /\ UNCHANGED <<exit, input, cursor_pos, input_scroll_line,
                   bufferVars, messageVars>>

\* Any other character key
KeyChar(c) ==
    /\ ~exit
    /\ input' = rope_insert(input, cursor_pos, <<c>>)
    /\ cursor_pos' = cursor_pos + 1
    /\ autocomplete_index' = None
    /\ input_scroll_line' =
           adjust_input_scroll(input', cursor_pos', input_scroll_line)
    /\ UNCHANGED <<exit, bufferVars, messageVars>>

KeyBackspace ==
    /\ ~exit
    /\ IF cursor_pos > 0
       THEN /\ cursor_pos' = cursor_pos - 1
            /\ input' = rope_remove(input, cursor_pos')
            /\ autocomplete_index' = None
            /\ input_scroll_line' =
                   adjust_input_scroll(input', cursor_pos', input_scroll_line)
       ELSE UNCHANGED inputVars
    /\ UNCHANGED <<exit, bufferVars, messageVars>>

KeyDelete ==
    /\ ~exit
    /\ IF cursor_pos < Len(input)
       THEN /\ input' = rope_remove(input, cursor_pos)
            /\ autocomplete_index' = None
            /\ input_scroll_line' =
                   adjust_input_scroll(input', cursor_pos, input_scroll_line)
            /\ UNCHANGED cursor_pos
       ELSE UNCHANGED inputVars
    /\ UNCHANGED <<exit, bufferVars, messageVars>>

KeyUp ==
    /\ ~exit
    /\ LET lc == get_cursor_line_col(input, cursor_pos)
       IN  IF lc[1] > 0
           THEN /\ cursor_pos' =
                       set_cursor_from_line_col(input, lc[1] - 1, lc[2])
                /\ input_scroll_line' =
                       adjust_input_scroll(input, cursor_pos',
                                           input_scroll_line)
           ELSE UNCHANGED <<cursor_pos, input_scroll_line>>
    /\ UNCHANGED <<exit, input, autocomplete_index, bufferVars, messageVars>>

KeyDown ==
    /\ ~exit
    /\ LET lc == get_cursor_line_col(input, cursor_pos)
           total_lines == input_line_count(input)
       IN  IF lc[1] + 1 < total_lines
           THEN /\ cursor_pos' =
                       set_cursor_from_line_col(input, lc[1] + 1, lc[2])
                /\ input_scroll_line' =
                       adjust_input_scroll(input, cursor_pos',
                                           input_scroll_line)
           ELSE UNCHANGED <<cursor_pos, input_scroll_line>>
    /\ UNCHANGED <<exit, input, autocomplete_index, bufferVars, messageVars>>

KeyLeft ==
    /\ ~exit
    /\ IF cursor_pos > 0
       THEN /\ cursor_pos' = cursor_pos - 1
            /\ input_scroll_line' =
                   adjust_input_scroll(input, cursor_pos', input_scroll_line)
       ELSE UNCHANGED <<cursor_pos, input_scroll_line>>
    /\ UNCHANGED <<exit, input, autocomplete_index, bufferVars, messageVars>>

KeyRight ==
    /\ ~exit
    /\ IF cursor_pos < Len(input)
       THEN /\ cursor_pos' = cursor_pos + 1
            /\ input_scroll_line' =
                   adjust_input_scroll(input, cursor_pos', input_scroll_line)
       ELSE UNCHANGED <<cursor_pos, input_scroll_line>>
    /\ UNCHANGED <<exit, input, autocomplete_index, bufferVars, messageVars>>

KeyHome ==
    /\ ~exit
    /\ LET current_line == get_cursor_line_col(input, cursor_pos)[1]
       IN  cursor_pos' = set_cursor_from_line_col(input, current_line, 0)
    /\ input_scroll_line' =
           adjust_input_scroll(input, cursor_pos', input_scroll_line)
    /\ UNCHANGED <<exit, input, autocomplete_index, bufferVars, messageVars>>

KeyEnd ==
    /\ ~exit
    /\ LET current_line == get_cursor_line_col(input, cursor_pos)[1]
           ls == lines(input)
       IN  IF current_line < Len(ls)
           THEN cursor_pos' =
                    set_cursor_from_line_col(input, current_line,
                                             Len(ls[current_line + 1]))
           ELSE cursor_pos' = Len(input)
    /\ input_scroll_line' =
           adjust_input_scroll(input, cursor_pos', input_scroll_line)
    /\ UNCHANGED <<exit, input, autocomplete_index, bufferVars, messageVars>>

\* Shift+Enter
KeyShiftEnter ==
    /\ ~exit
    /\ input' = rope_insert(input, cursor_pos, <<"\n">>)
    /\ cursor_pos' = cursor_pos + 1
    /\ input_scroll_line' =
           adjust_input_scroll(input', cursor_pos', input_scroll_line)
    /\ UNCHANGED <<exit, autocomplete_index, bufferVars, messageVars>>

\* A variant of accept_candidate that takes a snapshot as a confirmation
\* does.
accept_candidate_with_snapshot(command) ==
    /\ input' = command
    /\ cursor_pos' = Len(command)
    /\ autocomplete_index' = None
    /\ input_scroll_line' = 0
    /\ undo_stack' = push_undo(History).undo_stack
    /\ redo_stack' = push_undo(History).redo_stack
    /\ UNCHANGED <<exit, buffer, scroll_pos, messageVars>>

\* A variant of accept_candidate that runs the command at once, as the
\* Enter on a registered name does.
accept_candidate_and_run(command) ==
    /\ \E r \in command_results(command, buffer) :
           handle_command(command, r)
    /\ input' = <<>>
    /\ cursor_pos' = 0
    /\ autocomplete_index' = None
    /\ input_scroll_line' = 0

\* Enter with a selected candidate: the candidate becomes the input line.
accept_candidate(command) ==
    /\ input' = command
    /\ cursor_pos' = Len(command)
    /\ autocomplete_index' = None
    /\ input_scroll_line' = 0
    /\ UNCHANGED <<exit, bufferVars, messageVars>>

\* A variant of plain_edit that takes no snapshot.
plain_edit_without_snapshot(input_text) ==
    /\ buffer' = input_text
    /\ UNCHANGED <<exit, scroll_pos, messageVars, undo_stack, redo_stack>>

\* Enter on an input that is no registered name: the plain edit.
plain_edit(input_text) ==
    /\ undo_stack' = push_undo(History).undo_stack
    /\ redo_stack' = push_undo(History).redo_stack
    /\ buffer' = input_text
    /\ UNCHANGED <<exit, scroll_pos, messageVars>>

\* A variant of reset_input that leaves the text of the input line.
reset_input_keeps_text ==
    /\ UNCHANGED input
    /\ cursor_pos' = 0
    /\ autocomplete_index' = None
    /\ input_scroll_line' = 0

\* A variant of reset_input that leaves the cursor where it was.
reset_input_keeps_cursor ==
    /\ input' = <<>>
    /\ UNCHANGED cursor_pos
    /\ autocomplete_index' = None
    /\ input_scroll_line' = 0

\* Enter: the input line is reset.
reset_input ==
    /\ input' = <<>>
    /\ cursor_pos' = 0
    /\ autocomplete_index' = None
    /\ input_scroll_line' = 0

\* Enter, without Shift
KeyEnter ==
    /\ ~exit
    /\ LET filtered == get_filtered_commands(input)
           input_trimmed == trim(input)
       IN  IF autocomplete_index # None
              /\ autocomplete_index[1] < Len(filtered)
           THEN accept_candidate(filtered[autocomplete_index[1] + 1])
           ELSE IF Len(input) > 0
           THEN /\ IF is_valid_command(input_trimmed)
                   THEN \E r \in command_results(input_trimmed, buffer) :
                            handle_command(input_trimmed, r)
                   ELSE plain_edit(input)
                /\ reset_input
           ELSE UNCHANGED vars

\* Enter, without Shift, when the capabilities of Base64 return what they
\* compute.
KeyEnterComputed ==
    /\ ~exit
    /\ LET filtered == get_filtered_commands(input)
           input_trimmed == trim(input)
       IN  IF autocomplete_index # None
              /\ autocomplete_index[1] < Len(filtered)
           THEN accept_candidate(filtered[autocomplete_index[1] + 1])
           ELSE IF Len(input) > 0
           THEN /\ IF is_valid_command(input_trimmed)
                   THEN \E r \in computed_results(input_trimmed, buffer) :
                            handle_command(input_trimmed, r)
                   ELSE plain_edit(input)
                /\ reset_input
           ELSE UNCHANGED vars

KeyPageUp ==
    /\ ~exit
    /\ scroll_pos' = saturating_sub(scroll_pos, 10)
    /\ UNCHANGED <<exit, inputVars, buffer, undo_stack, redo_stack,
                   messageVars>>

KeyPageDown ==
    /\ ~exit
    /\ LET buffer_lines == Len(lines(buffer))
       IN  IF buffer_lines > 0
           THEN scroll_pos' =
                    Min(scroll_pos + 10, saturating_sub(buffer_lines, 1))
           ELSE UNCHANGED scroll_pos
    /\ UNCHANGED <<exit, inputVars, buffer, undo_stack, redo_stack,
                   messageVars>>

KeyEsc ==
    /\ ~exit
    /\ IF get_filtered_commands(input) # <<>> \/ autocomplete_index # None
       THEN /\ autocomplete_index' = None
            /\ input' = <<>>
            /\ cursor_pos' = 0
            /\ input_scroll_line' = 0
       ELSE UNCHANGED inputVars
    /\ UNCHANGED <<exit, bufferVars, messageVars>>

\* MouseEventKind::ScrollUp
MouseScrollUp ==
    /\ ~exit
    /\ scroll_pos' = saturating_sub(scroll_pos, 3)
    /\ UNCHANGED <<exit, inputVars, buffer, undo_stack, redo_stack,
                   messageVars>>

\* MouseEventKind::ScrollDown
MouseScrollDown ==
    /\ ~exit
    /\ LET buffer_lines == Len(lines(buffer))
       IN  IF buffer_lines > 0
           THEN scroll_pos' =
                    Min(scroll_pos + 3, saturating_sub(buffer_lines, 1))
           ELSE UNCHANGED scroll_pos
    /\ UNCHANGED <<exit, inputVars, buffer, undo_stack, redo_stack,
                   messageVars>>

\* Any other event (a resize, another key or mouse event) changes nothing.
OtherEvent ==
    /\ ~exit
    /\ UNCHANGED vars

(***************************************************************************)
(* The next-state relation, over bounded inputs: the characters typed, the *)
(* texts pasted and held by the clipboard, the length to which the input   *)
(* line is typed, the texts confirmed as plain edits and the number of     *)
(* snapshots on the undo stack.                                            *)
(***************************************************************************)
\* Enter takes a snapshot: the input is not empty and no candidate is
\* selected.
EnterConfirms ==
    /\ input # <<>>
    /\ ~(/\ autocomplete_index # None
         /\ autocomplete_index[1] < Len(get_filtered_commands(input)))

\* Enter within the bounds of the exploration.
EnterWithin(plains, maxHist) ==
    IF EnterConfirms
    THEN /\ Len(undo_stack) < maxHist
         /\ IF is_valid_command(trim(input)) THEN TRUE
            ELSE input \in plains
    ELSE TRUE

\* The input line is typed over chars and "\n", up to maxInput characters:
\* an accepted candidate is not edited further.
TypedWithin(chars, maxInput) ==
    /\ Len(input) <= maxInput
    /\ \A i \in 1..Len(input) : input[i] \in chars \cup {"\n"}

\* The events that edit the input line.
EditEvents(chars, pastes, clips, maxInput) ==
    \/ \E c \in chars :
           TypedWithin(chars, maxInput - 1) /\ KeyChar(c)
    \/ TypedWithin(chars, maxInput - 1) /\ KeyShiftEnter
    \/ \E t \in pastes :
           /\ IF input = <<>> THEN TRUE
              ELSE TypedWithin(chars, maxInput - Len(t))
           /\ Paste(t)
    \/ \E t \in clips :
           TypedWithin(chars, maxInput - Len(t)) /\ KeyCtrlV(Ok(t))
    \/ KeyCtrlV(Err("clipboard"))
    \/ TypedWithin(chars, maxInput) /\ KeyBackspace
    \/ TypedWithin(chars, maxInput) /\ KeyDelete
    \/ KeyTab
    \/ KeyEsc

\* The events that only move the cursor.
CursorEvents ==
    \/ KeyCtrlA
    \/ KeyCtrlE
    \/ KeyUp
    \/ KeyDown
    \/ KeyLeft
    \/ KeyRight
    \/ KeyHome
    \/ KeyEnd

\* Enter, the quit keys and the events that are ignored.
ConfirmEvents(plains, maxHist) ==
    \/ EnterWithin(plains, maxHist) /\ KeyEnter
    \/ KeyQuit
    \/ OtherEvent

\* The events of the history and of the output pane.
PaneEvents ==
    \/ KeyUndo
    \/ KeyRedo
    \/ KeyPageUp
    \/ KeyPageDown
    \/ MouseScrollUp
    \/ MouseScrollDown

\* The engine with a short input line: dispatch and history.
MaxInputLen == 2
MaxHist == 2
TypedChars == {"/"}
PasteTexts == {<<"/", "E", "X", "I", "T">>, <<" ", "/", "e", "x", "i", "t">>}
ClipTexts == {<<"c">>}
PlainTexts == {<<"/">>, <<"/", "E", "X", "I", "T">>}

Next ==
    \/ EditEvents(TypedChars, PasteTexts, ClipTexts, MaxInputLen)
    \/ ConfirmEvents(PlainTexts, MaxHist)
    \/ PaneEvents

Spec == Init /\ [][Next]_vars

\* The engine with a long input line: the editor, and what it confirms.
EditMaxInputLen == 6
EditMaxHist == 1
EditTypedChars == {"/"}
EditPasteTexts == {<<"\n", "/">>}
EditClipTexts == {<<"\n">>}
EditPlainTexts == {<<"/">>}

NextEdit ==
    \/ EditEvents(EditTypedChars, EditPasteTexts, EditClipTexts,
                  EditMaxInputLen)
    \/ CursorEvents
    \/ ConfirmEvents(EditPlainTexts, EditMaxHist)

SpecEdit == Init /\ [][NextEdit]_vars

\* The engine under every event, with a short input line and a short
\* history.
AllMaxInputLen == 1
AllMaxHist == 1
AllTypedChars == {"/"}
AllPasteTexts == {<<"x">>}
AllClipTexts == {<<"c">>}
AllPlainTexts == {<<"/">>, <<"x">>}

NextAll ==
    \/ EditEvents(AllTypedChars, AllPasteTexts, AllClipTexts, AllMaxInputLen)
    \/ CursorEvents
    \/ ConfirmEvents(AllPlainTexts, AllMaxHist)
    \/ PaneEvents

SpecAll == Init /\ [][NextAll]_vars

\* The input line and its confirmation: every key of the editor, Enter and
\* Esc, without the events of the history and of the output pane.
LineMaxInputLen == 2
LineMaxHist == 1
LineTypedChars == {"/"}
LinePasteTexts == {<<"x">>, <<" ", "/", "e", "x", "i", "t">>}
LineClipTexts == {<<"c">>}
LinePlainTexts == {<<"/">>, <<"x">>}

NextLine ==
    \/ EditEvents(LineTypedChars, LinePasteTexts, LineClipTexts,
                  LineMaxInputLen)
    \/ CursorEvents
    \/ ConfirmEvents(LinePlainTexts, LineMaxHist)

SpecLine == Init /\ [][NextLine]_vars

\* The input line alone: what is typed, pasted and deleted in it, and the
\* cursor keys.
CursorMaxInputLen == 6
CursorTypedChars == {"/"}
CursorPasteTexts == {<<"/", "j", "s">>}
CursorClipTexts == {<<"\n">>, <<"c">>}

NextCursor ==
    \/ EditEvents(CursorTypedChars, CursorPasteTexts, CursorClipTexts,
                  CursorMaxInputLen)
    \/ CursorEvents

SpecCursor == Init /\ [][NextCursor]_vars

(***************************************************************************)
(* The history under numbered snapshots: the n-th text confirmed is the    *)
(* decimal numeral of n, so that every snapshot is told from the others.   *)
(***************************************************************************)
DigitChars == <<"0", "1", "2", "3", "4", "5", "6", "7", "8", "9">>

RECURSIVE Numeral(_)
Numeral(n) ==
    IF n < 10 THEN <<DigitChars[n + 1]>>
    ELSE Append(Numeral(n \div 10), DigitChars[(n % 10) + 1])

DigitValue(c) == CHOOSE d \in 0..9 : DigitChars[d + 1] = c

\* The number a numeral denotes; 0 for the empty text.
RECURSIVE Number(_)
Number(t) ==
    IF t = <<>> THEN 0
    ELSE 10 * Number(SubSeq(t, 1, Len(t) - 1)) + DigitValue(t[Len(t)])

\* Snapshots are confirmed one after the other, each the successor of the
\* Buffer, and undone and redone to any depth: the scenario of the
\* undo/redo inverse law.
MaxSnapshots == 600

\* The latest snapshot on the line of the history, and its number.
Newest == IF redo_stack = <<>> THEN buffer ELSE redo_stack[1]

Confirmed == Number(Newest)

\* A snapshot is confirmed over snapshots still to redo only while the
\* line of the history holds at most MaxBranch of them.
MaxBranch == 3

NextLaw ==
    \/ /\ input = <<>>
       /\ IF redo_stack = <<>> THEN TRUE ELSE Confirmed <= MaxBranch
       /\ Number(buffer) < MaxSnapshots
       /\ Paste(Numeral(Number(buffer) + 1))
    \/ input # <<>> /\ KeyEnter
    \/ input = <<>> /\ KeyUndo
    \/ input = <<>> /\ KeyRedo

SpecLaw == Init /\ [][NextLaw]_vars

\* Snapshots confirmed one after the other, undone and redone, and
\* confirmed again from any point of the line of the history: a short
\* history, every way through it.
TimelineMaxSnapshots == 20

NextTimeline ==
    \/ /\ input = <<>>
       /\ Number(buffer) < TimelineMaxSnapshots
       /\ Paste(Numeral(Number(buffer) + 1))
    \/ input # <<>> /\ KeyEnter
    \/ input = <<>> /\ KeyUndo
    \/ input = <<>> /\ KeyRedo

SpecTimeline == Init /\ [][NextTimeline]_vars

(***************************************************************************)
(* Base64 in the engine: a text is pasted and confirmed into the Buffer,   *)
(* and "/base64-encode" and "/base64-decode" are pasted and confirmed on   *)
(* it.                                                                     *)
(***************************************************************************)
Base64MaxHist == 2

\* The texts confirmed into the Buffer: plain texts of one to four bytes,
\* and Base64 with its padding, with part of it, without it and within
\* white space, with a symbol too many, with bits set in the last symbol
\* that belong to no byte, and of bytes that are no UTF-8.
Base64Texts ==
    {<<"A">>, <<"H", "i">>, <<"@", "A", "~">>, <<"A", " ", "=", "A">>,
     <<"Q", "Q", "=", "=">>, <<"Q", "Q", "=">>, <<"Q", "Q">>,
     <<"S", "G", "k", "=">>, <<"S", "G", "k">>,
     <<"Q", "U", "F", "B">>, <<" ", "S", "G", "k", "=", "\n">>,
     <<"\n", "S", "G", "k", " ">>,
     <<"Q">>, <<"Q", "U", "F", "B", "Q">>, <<"Q", "R", "=", "=">>,
     <<"S", "G", "l", "=">>, <<"w", "w", "=", "=">>, <<"w", "6", "k", "=">>,
     <<"w", "6", "k">>, <<"=", "=", "=", "=">>, <<" ">>}

NextBase64 ==
    \/ \E t \in Base64Texts \cup {CmdBase64Encode, CmdBase64Decode} :
           input = <<>> /\ Paste(t)
    \/ input # <<>> /\ Len(undo_stack) < Base64MaxHist /\ KeyEnterComputed

SpecBase64 == Init /\ [][NextBase64]_vars

(***************************************************************************)
(* The capabilities of cmds::base64 on their own: a text is given, and     *)
(* base64_encode and base64_decode are applied to it, the text of a result *)
(* replacing the Buffer and the message of an error shown, as the spec has *)
(* a capability consumed.                                                  *)
(***************************************************************************)
CapabilityMaxLen == 3

\* The characters of the texts given: of one byte and of two, a symbol of
\* Base64 and white space among them.
CapabilityChars == {"A", "~", " ", "U+233"}

CapabilityTexts ==
    UNION {[1..n -> CapabilityChars] : n \in 0..CapabilityMaxLen}

InitCapability ==
    /\ exit = FALSE
    /\ input = <<>>
    /\ cursor_pos = 0
    /\ buffer \in CapabilityTexts
    /\ scroll_pos = 0
    /\ error_message = None
    /\ info_message = Some("Press / to show available commands")
    /\ autocomplete_index = None
    /\ input_scroll_line = 0
    /\ undo_stack = <<>>
    /\ redo_stack = <<>>

\* base64_encode applied to a text given.
Base64Encode ==
    /\ Len(buffer) <= CapabilityMaxLen
    /\ buffer' = base64_encode(buffer)
    /\ error_message' = None
    /\ UNCHANGED <<exit, inputVars, scroll_pos, info_message, undo_stack,
                   redo_stack>>

\* base64_decode applied to the text.
Base64Decode ==
    /\ LET r == base64_decode(buffer)
       IN  IF r.ok
           THEN buffer' = r.text /\ error_message' = None
           ELSE buffer' = buffer /\ error_message' = Some(r.error)
    /\ UNCHANGED <<exit, inputVars, scroll_pos, info_message, undo_stack,
                   redo_stack>>

NextCapability == Base64Encode \/ Base64Decode

SpecCapability == InitCapability /\ [][NextCapability]_vars

(***************************************************************************)
(* The claims of the specification                                         *)
(***************************************************************************)
\* The line, counted from 0, that the cursor is on.
cursor_line == get_cursor_line_col(input, cursor_pos)[1]

\* The text of the i-th snapshot of the numbered history: the empty Buffer
\* of Init, then the numerals.
SnapshotText(i) == IF i = 0 THEN <<>> ELSE Numeral(i)

\* The step is an Enter that takes a snapshot; such an Enter resets the
\* input line.
ConfirmStep == EnterConfirms /\ input' = <<>> /\ KeyEnter

\* C1: after every event the cursor position is a character offset within
\* the input line: 0 <= cursor_pos <= Len(input).
CursorInBounds == 0 <= cursor_pos /\ cursor_pos <= Len(input)

\* C1: after a confirmation, the input line has been typed to its full
\* length over several rows, the cursor at its end.
CursorInBounds_Witness ==
    /\ Len(input) = EditMaxInputLen
    /\ cursor_pos = Len(input)
    /\ cursor_line >= 2
    /\ undo_stack # <<>>

\* C2: after every event the line of the cursor lies within the five rows
\* shown from the input scroll anchor on.
CursorLineVisible ==
    /\ input_scroll_line <= cursor_line
    /\ cursor_line < input_scroll_line + max_visible_lines

\* C3: after every event the output scroll anchor is at most
\* max(0, totalLines - 1), totalLines the number of lines of the Buffer.
ScrollPosInRange == scroll_pos <= Max(0, Len(lines(buffer)) - 1)

\* C4: an Enter that dispatches a command or performs a plain edit leaves
\* the Buffer it found on top of the undo stack and the redo stack empty.
ConfirmationSnapshots ==
    [][ConfirmStep =>
           /\ undo_stack' # <<>>
           /\ undo_stack'[Len(undo_stack')] = buffer
           /\ redo_stack' = <<>>]_vars

\* C4: a text has been confirmed over a history that had a snapshot to
\* redo: the last message is still that of the undo.
ConfirmationSnapshots_Witness ==
    /\ info_message = Some("Undo")
    /\ redo_stack = <<>>
    /\ undo_stack # <<>>
    /\ buffer # undo_stack[Len(undo_stack)]

\* C5, as stated: after N confirmations, for every N, the undo calls that
\* use up the undo stack leave the Buffer at its first value B0.
InverseLaw == undo_stack = <<>> => buffer = SnapshotText(0)

\* C5, for N <= MAX_STACK_SIZE: after N confirmations every one of them
\* can be undone or redone, and with i of them left to undo the Buffer is
\* Bi: B0 when none is left, BN when none is left to redo.
InverseLawWithinCap ==
    Confirmed <= MAX_STACK_SIZE =>
        /\ Len(undo_stack) + Len(redo_stack) = Confirmed
        /\ buffer = SnapshotText(Len(undo_stack))

\* C5: MAX_STACK_SIZE confirmations, all of them undone.
InverseLawWithinCap_Witness ==
    /\ undo_stack = <<>>
    /\ Len(redo_stack) = MAX_STACK_SIZE
    /\ buffer = SnapshotText(0)
    /\ Confirmed = MAX_STACK_SIZE

\* C6: push_undo appends the Buffer to the undo stack, evicts the oldest
\* snapshot when that exceeds MAX_STACK_SIZE and clears the redo stack:
\* n snapshots taken one after the other leave the newest
\* min(n, MAX_STACK_SIZE) of them, oldest first.
PushUndoKeepsNewest ==
    /\ [](redo_stack = <<>> =>
            LET n == Number(buffer)
                kept == Min(n, MAX_STACK_SIZE)
            IN  undo_stack = [i \in 1..kept |-> SnapshotText(n - kept + i - 1)])
    /\ [][ConfirmStep =>
            LET pushed == Append(undo_stack, buffer)
            IN  /\ undo_stack' =
                       SubSeq(pushed,
                              Max(1, Len(pushed) - MAX_STACK_SIZE + 1),
                              Len(pushed))
                /\ redo_stack' = <<>>]_vars

\* C6: 600 snapshots have been taken: the 500 newest are kept.
PushUndoKeepsNewest_Witness ==
    /\ Number(buffer) = 600
    /\ redo_stack = <<>>
    /\ Len(undo_stack) = 500
    /\ undo_stack[1] = Numeral(100)
    /\ undo_stack[500] = Numeral(599)

\* C7: neither stack ever holds more than MAX_STACK_SIZE snapshots.
StacksWithinCap ==
    /\ Len(undo_stack) <= MAX_STACK_SIZE
    /\ Len(redo_stack) <= MAX_STACK_SIZE

\* C7: a redo has pushed onto an undo stack that evicted snapshots, and
\* filled it.
StacksWithinCap_Witness ==
    /\ info_message = Some("Redo")
    /\ Len(undo_stack) = MAX_STACK_SIZE
    /\ Number(buffer) > MAX_STACK_SIZE

\* C8: undo on a non-empty undo stack pops the top into the Buffer, pushes
\* the Buffer it replaces onto the redo stack and resets the output scroll
\* anchor to 0; on an empty undo stack it changes neither the Buffer, nor
\* the stacks, nor the scroll anchor, nor the messages.
UndoContract ==
    [][KeyUndo =>
           IF undo_stack # <<>>
           THEN /\ buffer' = undo_stack[Len(undo_stack)]
                /\ undo_stack' = SubSeq(undo_stack, 1, Len(undo_stack) - 1)
                /\ redo_stack' = Append(redo_stack, buffer)
                /\ scroll_pos' = 0
           ELSE UNCHANGED <<buffer, undo_stack, redo_stack, scroll_pos,
                            error_message, info_message>>]_vars

\* C8: an undo has replaced a Buffer of several lines.
UndoContract_Witness ==
    /\ info_message = Some("Undo")
    /\ redo_stack # <<>>
    /\ Len(lines(redo_stack[Len(redo_stack)])) > 1
    /\ scroll_pos = 0

\* C9: redo on a non-empty redo stack pops the top into the Buffer, pushes
\* the Buffer it replaces onto the undo stack and resets the output scroll
\* anchor to 0; on an empty redo stack it changes nothing.
RedoContract ==
    [][KeyRedo =>
           IF redo_stack # <<>>
           THEN /\ buffer' = redo_stack[Len(redo_stack)]
                /\ redo_stack' = SubSeq(redo_stack, 1, Len(redo_stack) - 1)
                /\ undo_stack' = Append(undo_stack, buffer)
                /\ scroll_pos' = 0
           ELSE UNCHANGED vars]_vars

\* C9: a redo has replaced a Buffer of several lines.
RedoContract_Witness ==
    /\ info_message = Some("Redo")
    /\ undo_stack # <<>>
    /\ Len(lines(undo_stack[Len(undo_stack)])) > 1
    /\ scroll_pos = 0

\* C10: a confirmed input whose trimmed text is no registered name runs no
\* command: the Buffer becomes the input text as typed, the exit flag and
\* the messages stay as they were.
OnlyExactNamesDispatch ==
    [][(ConfirmStep /\ trim(input) \notin RegisteredNames) =>
           /\ buffer' = input
           /\ exit' = exit
           /\ error_message' = error_message
           /\ info_message' = info_message]_vars

\* C10: a name in another case has been confirmed, and before it a strict
\* prefix of the names.
OnlyExactNamesDispatch_Witness ==
    /\ buffer = <<"/", "E", "X", "I", "T">>
    /\ undo_stack # <<>>
    /\ undo_stack[Len(undo_stack)] = <<"/">>
    /\ ~exit
    /\ error_message = None

\* The step replaces the Buffer by the input text as a plain edit does:
\* after a snapshot, and nothing else of the output side changes.
PlainEditStep ==
    /\ buffer' = input
    /\ undo_stack' # <<>>
    /\ undo_stack'[Len(undo_stack')] = buffer
    /\ redo_stack' = <<>>
    /\ UNCHANGED <<exit, scroll_pos, error_message, info_message>>

\* C11, as stated: a confirmed input is a plain edit exactly when it is no
\* registered name and does not start with "/".
PlainEditOnlyWithoutSlash ==
    [][ConfirmStep =>
           (PlainEditStep <=>
                /\ trim(input) \notin RegisteredNames
                /\ ~starts_with(input, <<"/">>))]_vars

\* C11, amended: a confirmed input is a plain edit exactly when its trimmed
\* text is no registered name, whether it starts with "/" or not.
PlainEditByExactMatch ==
    [][ConfirmStep =>
           (PlainEditStep <=> trim(input) \notin RegisteredNames)]_vars

\* C11: the text "/" has been confirmed, and has replaced the Buffer.
PlainEditByExactMatch_Witness ==
    /\ buffer = <<"/">>
    /\ input = <<>>
    /\ undo_stack = <<<<>>>>
    /\ error_message = None
    /\ info_message = Some("Press / to show available commands")

\* The commands that need content in the Buffer, and those of them that
\* transform it.
ContentCommands ==
    {CmdBase64Decode, CmdBase64Encode, CmdCopy, CmdJsonFormat,
     CmdJsonMinify, CmdCssFormat, CmdCssMinify, CmdSha256}

TransformCommands == ContentCommands \ {CmdCopy}

\* C12: a command that needs content, dispatched on the empty Buffer, sets
\* an error message and leaves the Buffer empty; the undo stack gains one
\* entry, the empty Buffer, and the redo stack is empty.
EmptyBufferGuard ==
    [][(ConfirmStep /\ trim(input) \in ContentCommands /\ buffer = <<>>) =>
           /\ error_message' # None
           /\ buffer' = <<>>
           /\ undo_stack' = Append(undo_stack, <<>>)
           /\ redo_stack' = <<>>]_vars

\* C12: two commands in a row have been stopped by the guard.
EmptyBufferGuard_Witness ==
    /\ error_message = Some(ErrBufferEmpty)
    /\ buffer = <<>>
    /\ undo_stack = <<<<>>, <<>>>>
    /\ redo_stack = <<>>

\* C13: a transform dispatched on a Buffer with content either succeeds,
\* and the Buffer is its output and the output scroll anchor 0, or fails,
\* and an error message is set and the Buffer and the anchor are as before.
TransformOutcome ==
    [][(ConfirmStep /\ trim(input) \in TransformCommands /\ buffer # <<>>) =>
           \/ /\ error_message' = None
              /\ buffer' \in OutTexts
              /\ scroll_pos' = 0
           \/ /\ error_message' # None
              /\ buffer' = buffer
              /\ scroll_pos' = scroll_pos]_vars

\* C13: a transform has failed on a scrolled Buffer of two lines.
TransformOutcome_Witness ==
    /\ error_message = Some("Error: Invalid JSON - {}")
    /\ buffer = <<"o", "\n", "k">>
    /\ scroll_pos = 1

\* C14: only a confirming Enter, an undo or a redo changes the Buffer or a
\* history stack, and of the confirming Enters only a plain edit or a
\* command that succeeds changes the Buffer.
BufferAndHistoryFrame ==
    [][/\ (buffer' # buffer \/ undo_stack' # undo_stack
                            \/ redo_stack' # redo_stack) =>
              (ConfirmStep \/ KeyUndo \/ KeyRedo)
       /\ buffer' # buffer =>
              \/ /\ ConfirmStep
                 /\ (trim(input) \notin RegisteredNames
                        \/ error_message' = None)
              \/ KeyUndo
              \/ KeyRedo]_vars

\* C14: after a confirmation a candidate has been accepted with Enter and
\* the cursor moved in it; Buffer and history are those of the
\* confirmation.
BufferAndHistoryFrame_Witness ==
    /\ input = CmdCopy
    /\ cursor_pos = 1
    /\ buffer = <<"x">>
    /\ undo_stack = <<<<>>>>
    /\ redo_stack = <<>>

\* The lines of the cursor model: a text of n line breaks has the lines
\* 0..n; line l starts after the l-th line break and ends before the next
\* one, or with the text.
LineBreaks(text) == {i \in 1..Len(text) : text[i] = "\n"}

LastLine(text) == Cardinality(LineBreaks(text))

\* The 1-based index of the n-th line break, n in 1..LastLine(text).
LineBreak(text, n) ==
    CHOOSE i \in LineBreaks(text) :
        Cardinality({j \in LineBreaks(text) : j <= i}) = n

LineStart(text, l) == IF l = 0 THEN 0 ELSE LineBreak(text, l)

LineEnd(text, l) ==
    IF l < LastLine(text) THEN LineBreak(text, l + 1) - 1 ELSE Len(text)

\* C15: for the input text and every offset k in it, the offset of the
\* (line, col) of k is k.
CursorRoundTrip ==
    \A k \in 0..Len(input) :
        LET lc == get_cursor_line_col(input, k)
        IN  set_cursor_from_line_col(input, lc[1], lc[2]) = k

\* C15: the cursor stands on the empty middle line of a text of three
\* lines.
CursorRoundTrip_Witness ==
    /\ input = <<"/", "\n", "\n", "/">>
    /\ cursor_pos = 2

\* C16: a column beyond the end of its line gives the offset of the end of
\* that line, and a line beyond the last one gives the end of the text.
LineColClamps ==
    \A l \in 0..(LastLine(input) + 1) :
        \A c \in 0..(Len(input) + 1) :
            LET offset == set_cursor_from_line_col(input, l, c)
            IN  IF l > LastLine(input)
                THEN offset = Len(input)
                ELSE c > LineEnd(input, l) - LineStart(input, l) =>
                         offset = LineEnd(input, l)

\* C16: the cursor stands at the end of a first line that is shorter than
\* the second.
LineColClamps_Witness ==
    /\ input = <<"/", "\n", "/", "/">>
    /\ cursor_pos = 1

\* The handlers that call adjust_input_scroll.
AdjustStep ==
    \/ KeyUp
    \/ KeyDown
    \/ KeyLeft
    \/ KeyRight
    \/ KeyHome
    \/ KeyEnd
    \/ KeyBackspace
    \/ KeyDelete
    \/ KeyShiftEnter
    \/ \E c \in CursorTypedChars : KeyChar(c)
    \/ \E t \in CursorPasteTexts : Paste(t)

\* C17: the anchor of the input view after an update, with the cursor on
\* line l: l - 5 + 1 if l >= anchor + 5, l if l < anchor, else the anchor.
AnchorUpdate ==
    [][AdjustStep =>
           LET l == get_cursor_line_col(input', cursor_pos')[1]
           IN  input_scroll_line' =
                   IF l >= input_scroll_line + 5 THEN l - 5 + 1
                   ELSE IF l < input_scroll_line THEN l
                   ELSE input_scroll_line]_vars

\* C17: seven lines, the cursor on line 6: the anchor is 2.
AnchorUpdate_Witness ==
    /\ input = <<"\n", "\n", "\n", "\n", "\n", "\n">>
    /\ cursor_pos = 6
    /\ input_scroll_line = 2

\* C18: the candidates are a function of the input text: none when it does
\* not begin with "/", else the registered names that start with the whole
\* text, in the order of the registry; "/js" gives "/json-format",
\* "/json-minify".
AutocompleteFilter ==
    LET filtered == get_filtered_commands(input)
        registry == get_available_commands
        matching == {i \in 1..Len(registry) : starts_with(registry[i], input)}
    IN  /\ (input = <<>> \/ input[1] # "/") => filtered = <<>>
        /\ (input # <<>> /\ input[1] = "/") =>
               /\ Len(filtered) = Cardinality(matching)
               /\ \A j \in 1..Len(filtered) :
                      \E i \in matching :
                          /\ filtered[j] = registry[i]
                          /\ Cardinality({m \in matching : m < i}) = j - 1
        /\ get_filtered_commands(<<"/", "j", "s">>) =
               <<CmdJsonFormat, CmdJsonMinify>>

\* C18: "/js" is the input line, the second of its two candidates
\* selected.
AutocompleteFilter_Witness ==
    /\ input = <<"/", "j", "s">>
    /\ autocomplete_index = Some(1)

\* A Tab on a non-empty candidate list selects the first candidate when
\* none is selected and the next one, around the list, otherwise; on an
\* empty list it changes nothing.
TabRule ==
    KeyTab =>
        LET filtered == get_filtered_commands(input)
        IN  IF filtered # <<>>
            THEN /\ autocomplete_index' =
                        IF autocomplete_index = None THEN Some(0)
                        ELSE Some((autocomplete_index[1] + 1) % Len(filtered))
                 /\ UNCHANGED <<exit, input, cursor_pos, input_scroll_line,
                                bufferVars, messageVars>>
            ELSE UNCHANGED vars

\* The index that a Tab selects in the state the step leads to.
NextTabSelects ==
    IF autocomplete_index' = None THEN 0
    ELSE (autocomplete_index'[1] + 1) % Len(get_filtered_commands(input'))

\* After a step that changes the input line and leaves it with
\* candidates, a Tab selects index 0.
FirstTabSelectsFirst ==
    (input' # input /\ get_filtered_commands(input') # <<>>) =>
        NextTabSelects = 0

\* C19: the first Tab after a change of the input line selects index 0 and
\* each further Tab moves the selection from i to (i + 1) mod the number
\* of candidates; with no candidates Tab changes nothing.
AutocompleteCycling == [][TabRule /\ FirstTabSelectsFirst]_vars

\* C20: every step that changes the input line leaves no candidate
\* selected.
InputMutationResetsSelection ==
    [][input' # input => autocomplete_index' = None]_vars

\* C21: a selected candidate is always one of the candidates of the input
\* line as it is now: the selected index is less than their number.
SelectionNeverStale ==
    autocomplete_index # None =>
        autocomplete_index[1] < Len(get_filtered_commands(input))

\* A candidate is selected: Enter accepts it.
CandidateSelected ==
    /\ autocomplete_index # None
    /\ autocomplete_index[1] < Len(get_filtered_commands(input))

\* The step is an Enter that accepts the selected candidate.
AcceptStep == CandidateSelected /\ KeyEnter

\* The step is an Enter that runs the command the input line names.
DispatchStep ==
    /\ ConfirmStep
    /\ \E r \in command_results(trim(input), buffer) :
           handle_command(trim(input), r)

\* C22: an Enter with a selected candidate makes the candidate the input
\* line, with the cursor at its end and nothing selected, and runs nothing:
\* the Buffer, the two stacks, the messages and the exit flag stay as they
\* were. The input line is then a registered name with nothing selected,
\* and the Enter on such a line, and no Enter on a selected candidate, runs
\* the command.
TwoStepConfirmation ==
    [][/\ AcceptStep =>
              /\ input' =
                     get_filtered_commands(input)[autocomplete_index[1] + 1]
              /\ cursor_pos' = Len(input')
              /\ autocomplete_index' = None
              /\ UNCHANGED <<buffer, undo_stack, redo_stack, error_message,
                             info_message, exit>>
              /\ input' \in RegisteredNames
              /\ ~DispatchStep
       /\ (/\ autocomplete_index = None
           /\ input \in RegisteredNames
           /\ ConfirmStep) => DispatchStep]_vars

\* C22: "/exit" has been accepted from the candidates of "/" and is the
\* input line, nothing run yet.
TwoStepConfirmation_Witness ==
    /\ input = CmdExit
    /\ cursor_pos = Len(CmdExit)
    /\ autocomplete_index = None
    /\ ~exit
    /\ undo_stack = <<>>
    /\ info_message = Some("Press / to show available commands")

\* Esc cancels: candidates are shown, or one is selected.
EscCancels ==
    get_filtered_commands(input) # <<>> \/ autocomplete_index # None

\* The input line after the step is as a reset leaves it.
InputIsReset ==
    /\ input' = <<>>
    /\ cursor_pos' = 0
    /\ autocomplete_index' = None
    /\ input_scroll_line' = 0

\* C23: after an Enter that runs a command or makes a plain edit, and
\* after an Esc that cancels, the input line is empty, the cursor is at
\* offset 0, no candidate is selected and the scroll anchor of the input
\* line is 0.
InputResetOnConfirmOrCancel ==
    [][((EnterConfirms /\ KeyEnter) \/ (EscCancels /\ KeyEsc)) =>
           InputIsReset]_vars

\* C23: "/base64-decode" has been accepted and confirmed on the empty
\* Buffer, and the input line is empty again.
InputResetOnConfirmOrCancel_Witness ==
    /\ error_message = Some(ErrBufferEmpty)
    /\ undo_stack = <<<<>>>>
    /\ input = <<>>
    /\ cursor_pos = 0
    /\ autocomplete_index = None
    /\ input_scroll_line = 0

PasteFails == KeyCtrlV(Err("clipboard"))

\* The Enter that runs "/copy" on a Buffer with content when
\* clipboard.set_text fails.
CopyFails ==
    /\ ~exit
    /\ EnterConfirms
    /\ trim(input) = CmdCopy
    /\ buffer # <<>>
    /\ handle_command(trim(input), Err("Error: Failed to copy to clipboard"))
    /\ reset_input

\* C25: a failure of the clipboard shows: after a Ctrl+V whose get fails
\* there is an error message, and the Buffer and the input line are as
\* they were; after a "/copy" whose set fails there is an error message
\* and the Buffer is as it was.
ClipboardFailuresSurfaced ==
    /\ ~ENABLED (/\ PasteFails
                 /\ ~(/\ error_message' # None
                      /\ buffer' = buffer
                      /\ input' = input))
    /\ ~ENABLED (/\ CopyFails
                 /\ ~(/\ error_message' # None
                      /\ buffer' = buffer))

\* C26: the error of the default arm of handle_command never shows: no
\* reachable state has the message "Error: Unknown command ...".
UnknownCommandUnreachable == error_message # Some(ErrUnknownCommand)

\* C26: a command has been run and has failed on its guard, and then
\* "/EXIT", which is no registered name, has been confirmed: it is the
\* Buffer, and the message is still the one of the guard.
UnknownCommandUnreachable_Witness ==
    /\ buffer = <<"/", "E", "X", "I", "T">>
    /\ error_message = Some(ErrBufferEmpty)
    /\ Len(undo_stack) = 2
    /\ input = <<>>

\* C28: an Esc with candidates shown or a candidate selected closes the
\* popup: the input line is empty, the cursor at offset 0 and nothing
\* selected after it; any other Esc sets the exit flag.
EscClosesOrExits ==
    /\ ~ENABLED (/\ EscCancels
                 /\ KeyEsc
                 /\ ~(/\ input' = <<>>
                      /\ cursor_pos' = 0
                      /\ autocomplete_index' = None))
    /\ ~ENABLED (~EscCancels /\ KeyEsc /\ ~exit')

\* The line of the history: the undo stack from its bottom, the Buffer,
\* then the redo stack from its top. TimelineAt(u, b, r, i) is its i-th
\* text.
TimelineLen(u, r) == Len(u) + 1 + Len(r)

TimelineAt(u, b, r, i) ==
    IF i <= Len(u) THEN u[i]
    ELSE IF i = Len(u) + 1 THEN b
    ELSE r[Len(r) - (i - Len(u) - 1) + 1]

\* The step leaves the line of the history as it was.
TimelineKept ==
    /\ TimelineLen(undo_stack', redo_stack') =
           TimelineLen(undo_stack, redo_stack)
    /\ \A i \in 1..TimelineLen(undo_stack, redo_stack) :
           TimelineAt(undo_stack', buffer', redo_stack', i) =
               TimelineAt(undo_stack, buffer, redo_stack, i)

\* The Buffer and the two stacks of h are those of the state before the
\* step.
RestoresHistory(h) ==
    /\ h.buffer = buffer
    /\ h.undo_stack = undo_stack
    /\ h.redo_stack = redo_stack

\* C30: an undo and a redo leave the line of the history as it was, and
\* with it the sum of the lengths of the two stacks; the redo of what an
\* undo leads to, and the undo of what a redo leads to, give back the
\* Buffer and both stacks.
LinearTimeline ==
    [][/\ (KeyUndo \/ KeyRedo) =>
              /\ TimelineKept
              /\ Len(undo_stack') + Len(redo_stack') =
                     Len(undo_stack) + Len(redo_stack)
       /\ (undo_stack # <<>> /\ KeyUndo) => RestoresHistory(redo(History'))
       /\ (redo_stack # <<>> /\ KeyRedo) => RestoresHistory(undo(History'))]_vars

\* C30: three snapshots have been confirmed and two of them undone.
LinearTimeline_Witness ==
    /\ buffer = Numeral(1)
    /\ undo_stack = <<<<>>>>
    /\ redo_stack = <<Numeral(3), Numeral(2)>>
    /\ info_message = Some("Undo")

\* The text e without the last k of its characters.
without_last(e, k) == SubSeq(e, 1, Len(e) - k)

\* White space put before and after a text.
WhiteSpaces == {<<>>, <<" ">>, <<"\n", "\t">>}

\* C27: for the text s of the Buffer, the Base64 of s without some or all
\* of its padding, and within white space, decodes to s as the padded one
\* does; and add_base64_padding appends (4 - len mod 4) mod 4 characters
\* "=" to the trimmed text, len its length in bytes, so that the length of
\* the result is a multiple of 4.
Base64PaddingTolerant ==
    LET e == base64_encode(buffer)
        unpadded == {without_last(e, k) : k \in 0..trailing_pads(e)}
    IN  /\ base64_decode(e) = Ok(buffer)
        /\ \A u \in unpadded :
               \A l \in WhiteSpaces, r \in WhiteSpaces :
                   base64_decode(l \o u \o r) = base64_decode(e)
        /\ \A t \in unpadded \cup {buffer} :
               LET padded == add_base64_padding(t)
                   len == Len(as_bytes(trim(t)))
               IN  /\ padded =
                          trim(t) \o [i \in 1..((4 - (len % 4)) % 4) |-> "="]
                   /\ Len(as_bytes(padded)) % 4 = 0

\* C27: "AAA", three symbols without the "=" that pads them, has been
\* decoded to its two bytes.
Base64PaddingTolerant_Witness ==
    /\ buffer = <<"U+0", "U+0">>
    /\ error_message = None

\* The step is the Enter that runs "/base64-decode" on a Buffer with
\* content.
DecodeDispatchStep ==
    /\ buffer # <<>>
    /\ trim(input) = CmdBase64Decode
    /\ EnterConfirms
    /\ KeyEnterComputed

\* C29: "/base64-decode" does to the Buffer what base64_decode makes of
\* it: when base64_decode succeeds the Buffer becomes its text and no
\* error shows, and when it fails the Buffer stays and an error shows.
Base64DispatchAgrees ==
    [][DecodeDispatchStep =>
           LET r == base64_decode(buffer)
           IN  IF r.ok
               THEN buffer' = r.text /\ error_message' = None
               ELSE buffer' = buffer /\ error_message' # None]_vars

\* C31: in every state the line count of rendering and of the Down key,
\* text.lines().count().max(1), exceeds the line of the cursor, the
\* renderer finds the cursor inside the slice [start_line, end_line) it
\* draws, and every line an offset of the input lies on is below that
\* line count, so that Down can step onto it.
CursorInsideVisibleSlice ==
    /\ cursor_line < input_line_count(input)
    /\ cursor_in_visible_area(input, cursor_pos, input_scroll_line)
    /\ \A k \in 0..Len(input) :
           get_cursor_line_col(input, k)[1] < input_line_count(input)

====
